---- MODULE Spec2Model ----
(***************************************************************************)
(* Model of restore-exif-iOS.py: the batch that restores the capture date  *)
(* of WhatsApp media from the file name.  Strings are sequences of         *)
(* one-character strings, so that the regular expressions, the split of    *)
(* the name, strptime and strftime are computed and not assumed.           *)
(***************************************************************************)
EXTENDS Integers, Sequences, FiniteSets, TLC

(***************************************************************************)
(* Bounds of the model.                                                    *)
(***************************************************************************)
MaxFiles == 3
MaxRuns == 2

(***************************************************************************)
(* Strings.                                                                *)
(***************************************************************************)
DigitChars == <<"0", "1", "2", "3", "4", "5", "6", "7", "8", "9">>

IsDigit(c) == \E k \in 1..10 : DigitChars[k] = c

DigitVal(c) == CHOOSE k \in 0..9 : DigitChars[k + 1] = c

AllDigits(s) == \A k \in 1..Len(s) : IsDigit(s[k])

RECURSIVE int(_)
int(s) == IF s = <<>> THEN 0
          ELSE 10 * int(SubSeq(s, 1, Len(s) - 1)) + DigitVal(s[Len(s)])

\* format an integer on w digits, zero padded (%m %d %H %M %S, and %Y for
\* the four-digit years the model uses)
RECURSIVE zfill(_, _)
zfill(n, w) == IF w = 0 THEN <<>>
               ELSE zfill(n \div 10, w - 1) \o <<DigitChars[(n % 10) + 1]>>

startswith(s, p) == Len(s) >= Len(p) /\ SubSeq(s, 1, Len(p)) = p

endswith(s, p) == Len(s) >= Len(p) /\ SubSeq(s, Len(s) - Len(p) + 1, Len(s)) = p

RECURSIVE join(_)
join(toks) == IF toks = <<>> THEN <<>> ELSE Head(toks) \o join(Tail(toks))

\* Python's seq[a:b] for 0 <= a <= b
PySlice(seq, a, b) == SubSeq(seq, a + 1, IF b < Len(seq) THEN b ELSE Len(seq))

IsSep(c) == c = "." \/ c = "-"

\* re.split("[.-]", s): the tokens between the separators, read left to
\* right from position i with the current token tok
RECURSIVE split_from(_, _, _)
split_from(s, i, tok) ==
    IF i > Len(s) THEN <<tok>>
    ELSE IF IsSep(s[i]) THEN <<tok>> \o split_from(s, i + 1, <<>>)
    ELSE split_from(s, i + 1, Append(tok, s[i]))

re_split(s) == split_from(s, 1, <<>>)

\* os.path.splitext(fn)[-1]: from the last dot on, unless that dot is
\* preceded by dots only (a leading dot is not an extension separator)
splitext(fn) ==
    IF \A k \in 1..Len(fn) : fn[k] # "." THEN <<>>
    ELSE LET k == CHOOSE j \in 1..Len(fn) :
                      fn[j] = "." /\ \A i \in (j + 1)..Len(fn) : fn[i] # "."
         IN IF \A i \in 1..(k - 1) : fn[i] = "." THEN <<>>
            ELSE SubSeq(fn, k, Len(fn))

(***************************************************************************)
(* Filename parser and classifier.                                         *)
(***************************************************************************)
PHOTO == <<"P", "H", "O", "T", "O">>
VIDEO == <<"V", "I", "D", "E", "O">>

\* \d{8}-TAG-\d{4}-\d{2}-\d{2}-\d{2}-\d{2}-\d{2}\..+ matched at the start
regex_match(tag, s) ==
    /\ Len(s) >= 36
    /\ AllDigits(SubSeq(s, 1, 8))
    /\ s[9] = "-"
    /\ SubSeq(s, 10, 14) = tag
    /\ s[15] = "-"
    /\ AllDigits(SubSeq(s, 16, 19))
    /\ \A k \in 0..4 : /\ s[20 + 3 * k] = "-"
                       /\ AllDigits(SubSeq(s, 21 + 3 * k, 22 + 3 * k))
    /\ s[35] = "."

is_whatsapp_img(filename) == regex_match(PHOTO, filename)

is_whatsapp_vid(filename) == regex_match(VIDEO, filename)

IsLeap(y) == (y % 4 = 0 /\ y % 100 # 0) \/ y % 400 = 0

DaysInMonth(y, m) ==
    IF m = 2 THEN (IF IsLeap(y) THEN 29 ELSE 28)
    ELSE IF m \in {4, 6, 9, 11} THEN 30 ELSE 31

\* datetime.strptime(date_str, '%Y%m%d%H%M%S'): ok = FALSE is ValueError.
\* On fourteen digits every directive takes its full width; any other
\* string leaves the format unmatched or data unconverted.
strptime(date_str) ==
    IF Len(date_str) # 14 \/ ~AllDigits(date_str)
    THEN [ok |-> FALSE, dt |-> <<>>]
    ELSE LET Y == int(SubSeq(date_str, 1, 4))
             m == int(SubSeq(date_str, 5, 6))
             d == int(SubSeq(date_str, 7, 8))
             H == int(SubSeq(date_str, 9, 10))
             M == int(SubSeq(date_str, 11, 12))
             S == int(SubSeq(date_str, 13, 14))
         IN IF /\ Y >= 1
               /\ m \in 1..12
               /\ d >= 1 /\ d <= DaysInMonth(Y, m)
               /\ H <= 23 /\ M <= 59 /\ S <= 59
            THEN [ok |-> TRUE, dt |-> <<Y, m, d, H, M, S>>]
            ELSE [ok |-> FALSE, dt |-> <<>>]

get_datetime(filename) == strptime(join(PySlice(re_split(filename), 2, 8)))

\* strftime("%Y:%m:%d %H:%M:%S")
strftime(dt) ==
    zfill(dt[1], 4) \o <<":">> \o zfill(dt[2], 2) \o <<":">> \o zfill(dt[3], 2)
    \o <<" ">> \o zfill(dt[4], 2) \o <<":">> \o zfill(dt[5], 2) \o <<":">>
    \o zfill(dt[6], 2)

get_exif_datestr(filename) ==
    LET r == get_datetime(filename)
    IN IF r.ok THEN [ok |-> TRUE, str |-> strftime(r.dt)]
       ELSE [ok |-> FALSE, str |-> <<>>]

\* datetime.timestamp() of a naive datetime, with the local zone taken as
\* UTC: seconds since 1970-01-01 00:00:00
timestamp(dt) ==
    LET y == IF dt[2] <= 2 THEN dt[1] - 1 ELSE dt[1]
        era == y \div 400
        yoe == y - era * 400
        mp == IF dt[2] > 2 THEN dt[2] - 3 ELSE dt[2] + 9
        doy == (153 * mp + 2) \div 5 + dt[3] - 1
        doe == yoe * 365 + yoe \div 4 - yoe \div 100 + doy
        days == era * 146097 + doe - 719468
    IN days * 86400 + dt[4] * 3600 + dt[5] * 60 + dt[6]

(***************************************************************************)
(* The directory the tool is pointed at.  A file of the catalogue is a     *)
(* name, the directory holding it (0 the root, 1 a subdirectory), whether  *)
(* it is a regular file, its data and its embedded metadata.  The          *)
(* metadata is the form piexif finds it in ("valid", "badload": load       *)
(* raises ValueError, "baddump": load succeeds and dump raises ValueError) *)
(* and its tags; data "garbage" makes load raise InvalidImageDataError.    *)
(***************************************************************************)
JPG == <<".", "j", "p", "g">>
JPEG == <<".", "j", "p", "e", "g">>
MP4 == <<".", "m", "p", "4">>
GP3 == <<".", "3", "g", "p">>

WAName(seqno, tag, dt, ext) ==
    zfill(seqno, 8) \o <<"-">> \o tag \o <<"-">> \o zfill(dt[1], 4) \o <<"-">>
    \o zfill(dt[2], 2) \o <<"-">> \o zfill(dt[3], 2) \o <<"-">>
    \o zfill(dt[4], 2) \o <<"-">> \o zfill(dt[5], 2) \o <<"-">>
    \o zfill(dt[6], 2) \o ext

DateTimeOriginal == "DateTimeOriginal"

Make == [Make |-> <<"X">>]

CameraDate == [Make |-> <<"X">>,
               DateTimeOriginal |-> strftime(<<2020, 2, 28, 11, 59, 58>>)]

EmptyDate == [DateTimeOriginal |-> <<>>]

Media(name, form, tags) ==
    [name |-> name, dir |-> 0, isfile |-> TRUE, data |-> "jpeg",
     form |-> form, tags |-> tags]

Catalogue ==
    << Media(WAName(15, PHOTO, <<2021, 4, 12, 18, 24, 22>>, JPG), "valid", Make),
       Media(WAName(16, PHOTO, <<2021, 4, 13, 8, 5, 9>>, JPEG), "baddump", Make),
       Media(WAName(17, PHOTO, <<2022, 2, 28, 23, 59, 59>>, JPG), "badload", Make),
       Media(WAName(18, PHOTO, <<2020, 2, 29, 12, 0, 0>>, JPG), "valid", CameraDate),
       Media(WAName(19, PHOTO, <<2021, 13, 45, 25, 61, 61>>, JPG), "valid", Make),
       [Media(WAName(20, PHOTO, <<2021, 6, 1, 7, 30, 0>>, JPG), "valid", Make)
            EXCEPT !.data = "garbage"],
       Media(<<"r", "a", "n", "d", "o", "m", "f", "i", "l", "e">> \o JPG,
             "valid", Make),
       Media(WAName(3, VIDEO, <<2020, 1, 5, 9, 0, 0>>, MP4), "valid", Make),
       Media(WAName(4, VIDEO, <<2021, 2, 29, 10, 0, 0>>, GP3), "valid", Make),
       Media(WAName(21, PHOTO, <<2021, 7, 4, 16, 45, 10>>, MP4), "valid", Make),
       Media(<<".", "D", "S", "_", "S", "t", "o", "r", "e">>, "valid", Make),
       Media(<<"_", "c", "h", "a", "t", ".", "t", "x", "t">>, "valid", Make),
       [Media(<<".", "_">> \o WAName(15, PHOTO, <<2021, 4, 12, 18, 24, 22>>, JPG),
              "valid", Make) EXCEPT !.dir = 1],
       Media(<<"I", "M", "G", ".", "J", "P", "G">>, "valid", Make),
       [Media(<<"a", "l", "b", "u", "m">> \o JPG, "valid", Make)
            EXCEPT !.isfile = FALSE],
       [Media(WAName(22, PHOTO, <<2019, 12, 31, 0, 0, 1>>, JPEG), "valid", EmptyDate)
            EXCEPT !.dir = 1] >>

\* the times the exported files carry before the tool runs
ExportATime == timestamp(<<2023, 6, 1, 0, 1, 0>>)
ExportMTime == timestamp(<<2023, 6, 1, 0, 0, 0>>)

NewFile(id) ==
    [id |-> id,
     data |-> Catalogue[id].data,
     exif |-> [form |-> Catalogue[id].form, tags |-> Catalogue[id].tags],
     atime |-> ExportATime,
     mtime |-> ExportMTime]

\* A directory holds at most MaxFiles entries of the catalogue, no two of
\* the same name, and lists them in catalogue order or in the reverse
\* order: every two files are met in both orders.
RECURSIVE Ascending(_)
Ascending(S) ==
    IF S = {} THEN <<>>
    ELSE LET least == CHOOSE x \in S : \A y \in S : x <= y
         IN <<least>> \o Ascending(S \ {least})

Reverse(l) == [k \in 1..Len(l) |-> l[Len(l) + 1 - k]]

RECURSIVE SetsUpTo(_)
SetsUpTo(n) ==
    IF n = 0 THEN {{}}
    ELSE LET smaller == SetsUpTo(n - 1)
         IN smaller \cup {S \cup {id} : S \in smaller, id \in DOMAIN Catalogue}

Listings ==
    {Ascending(S) : S \in SetsUpTo(MaxFiles)}
    \cup {Reverse(Ascending(S)) : S \in SetsUpTo(MaxFiles)}

VARIABLES root, recursive, mod, files, run, snap, pc, exc,
          all_filepaths, filepaths, filtered_fps, pos, exif_bytes, log

vars == <<root, recursive, mod, files, run, snap, pc, exc,
          all_filepaths, filepaths, filtered_fps, pos, exif_bytes, log>>

Name(k) == Catalogue[files[k].id].name

NoLog == [k \in 1..Len(files) |-> "none"]

Init ==
    /\ root \in {"dir", "file", "missing"}
    /\ recursive \in BOOLEAN
    /\ mod \in BOOLEAN
    /\ \E l \in Listings :
           /\ root # "dir" => l = <<>>
           /\ files = [k \in 1..Len(l) |-> NewFile(l[k])]
    /\ run = 1
    /\ snap = files
    /\ pc = "validate"
    /\ exc = "none"
    /\ all_filepaths = <<>>
    /\ filepaths = <<>>
    /\ filtered_fps = <<>>
    /\ pos = 0
    /\ exif_bytes = <<>>
    /\ log = NoLog

(***************************************************************************)
(* File enumerator and extension filter.  A file path is the index of the  *)
(* file in files: the pair (directory, name) it stands for is unique.      *)
(***************************************************************************)
ignored_files == { <<".", "D", "S", "_", "S", "t", "o", "r", "e">>,
                   <<"_", "c", "h", "a", "t", ".", "t", "x", "t">> }

allowed_extensions == {MP4, JPG, GP3, JPEG}

\* the entries of the directory tree, in listing order
Entries == [k \in 1..Len(files) |-> k]

NotIgnored(k) == Name(k) \notin ignored_files /\ ~startswith(Name(k), <<".", "_">>)

\* get_filepaths with the filter of line 39-40 left out of the walk
get_filepaths_unfiltered_walk(path, rec) ==
    LET InRoot(k) == /\ Catalogue[files[k].id].dir = 0
                     /\ Catalogue[files[k].id].isfile
                     /\ NotIgnored(k)
        InSub(k) == /\ Catalogue[files[k].id].dir = 1
                    /\ Catalogue[files[k].id].isfile
    IN IF ~rec THEN SelectSeq(Entries, InRoot)
       ELSE SelectSeq(Entries, LAMBDA k : Catalogue[files[k].id].dir = 0
                                           /\ Catalogue[files[k].id].isfile)
            \o SelectSeq(Entries, InSub)

\* os.listdir of the root, or os.walk: the root's files, then the
\* subdirectory's
get_filepaths(path, rec) ==
    LET InRoot(k) == /\ Catalogue[files[k].id].dir = 0
                     /\ Catalogue[files[k].id].isfile
                     /\ NotIgnored(k)
        InSub(k) == /\ Catalogue[files[k].id].dir = 1
                    /\ Catalogue[files[k].id].isfile
                    /\ NotIgnored(k)
    IN IF ~rec THEN SelectSeq(Entries, InRoot)
       ELSE SelectSeq(Entries, InRoot) \o SelectSeq(Entries, InSub)

lower(str) ==
    [i \in 1..Len(str) |->
        CASE str[i] = "J" -> "j" [] str[i] = "P" -> "p" [] str[i] = "G" -> "g"
          [] str[i] = "E" -> "e" [] str[i] = "M" -> "m" [] OTHER -> str[i]]

\* filter_filepaths comparing the extension without regard to case
filter_filepaths_anycase(fps, allowed_ext) ==
    SelectSeq(fps, LAMBDA k : lower(splitext(Name(k))) \in allowed_ext)

filter_filepaths(fps, allowed_ext) ==
    SelectSeq(fps, LAMBDA k : splitext(Name(k)) \in allowed_ext)

filtered_filepaths(unfiltered_fps, fps) ==
    SelectSeq(unfiltered_fps, LAMBDA i : \A j \in 1..Len(fps) : fps[j] # i)

(***************************************************************************)
(* piexif.                                                                 *)
(***************************************************************************)
\* piexif.load(filepath): the exception it raises, or "ok".
\* InvalidImageDataError is a ValueError that line 117 catches first.
piexif_load(f) ==
    IF f.data = "garbage" THEN "InvalidImageDataError"
    ELSE IF f.exif.form = "badload" THEN "ValueError"
    ELSE "ok"

\* has_date reading the tag DateTime of the image instead of
\* DateTimeOriginal
has_date_other_tag(exif_dict) ==
    /\ "DateTime" \in DOMAIN exif_dict.tags
    /\ exif_dict.tags["DateTime"] # <<>>

\* exif_dict['Exif'].get(piexif.ExifIFD.DateTimeOriginal) is truthy
has_date(exif_dict) ==
    /\ DateTimeOriginal \in DOMAIN exif_dict.tags
    /\ exif_dict.tags[DateTimeOriginal] # <<>>

\* exif_dict['Exif'][piexif.ExifIFD.DateTimeOriginal] = value
set_date(exif_dict, value) ==
    [exif_dict EXCEPT !.tags =
        [t \in (DOMAIN exif_dict.tags) \cup {DateTimeOriginal} |->
            IF t = DateTimeOriginal THEN value ELSE exif_dict.tags[t]]]

\* piexif.dump(exif_dict) raises ValueError
dump_raises(exif_dict) == exif_dict.form = "baddump"

make_new_exif(filename) ==
    LET r == get_exif_datestr(filename)
    IN IF r.ok
       THEN [ok |-> TRUE,
             bytes |-> [form |-> "valid",
                        tags |-> [t \in {DateTimeOriginal} |-> r.str]]]
       ELSE [ok |-> FALSE, bytes |-> [form |-> "valid", tags |-> <<>>]]

\* os.utime(filepath, (modTime, modTime))
utime(f, modTime) == [f EXCEPT !.atime = modTime, !.mtime = modTime]

\* piexif.insert(exif_bytes, filepath): the container of the file is
\* replaced, its data is kept.  The times of a file are what os.utime set
\* last; what the file system does to them on a read or a write is not
\* part of the program.
insert(bytes, f) == [f EXCEPT !.exif = bytes]

(***************************************************************************)
(* What the classifier and the parser return on each name of the           *)
(* catalogue, computed once per name.                                      *)
(***************************************************************************)
OnName ==
    [id \in DOMAIN Catalogue |->
        LET fn == Catalogue[id].name
        IN [video_ext |-> endswith(fn, MP4) \/ endswith(fn, GP3),
            image_ext |-> endswith(fn, JPG) \/ endswith(fn, JPEG),
            is_whatsapp_vid |-> is_whatsapp_vid(fn),
            is_whatsapp_img |-> is_whatsapp_img(fn),
            get_datetime |-> get_datetime(fn),
            get_exif_datestr |-> get_exif_datestr(fn),
            make_new_exif |-> make_new_exif(fn)]]

(***************************************************************************)
(* main.                                                                   *)
(***************************************************************************)
\* lines 68-72: the path does not exist, or is not a directory
ValidateFail ==
    /\ pc = "validate"
    /\ root # "dir"
    /\ pc' = "fatal"
    /\ exc' = IF root = "missing" THEN "FileNotFoundError" ELSE "TypeError"
    /\ UNCHANGED <<root, recursive, mod, files, run, snap, all_filepaths,
                   filepaths, filtered_fps, pos, exif_bytes, log>>

\* lines 67-89: validation passes, the files are listed and filtered
ListAndFilter ==
    /\ pc = "validate"
    /\ root = "dir"
    /\ LET listed == get_filepaths(root, recursive)
           kept == filter_filepaths(listed, allowed_extensions)
       IN /\ all_filepaths' = listed
          /\ filepaths' = kept
          /\ filtered_fps' = filtered_filepaths(listed, kept)
    /\ pos' = 1
    /\ pc' = "loop"
    /\ UNCHANGED <<root, recursive, mod, files, run, snap, exc, exif_bytes, log>>

InLoop == pc = "loop" /\ pos <= Len(filepaths)

cur == filepaths[pos]

\* the results of the calls on the current filename
filename == OnName[files[cur].id]

\* line 95
IsVideoName == filename.video_ext

\* line 103
IsImageName == ~filename.video_ext /\ filename.image_ext

\* the iteration ends and the loop moves on; log keeps for each file the
\* last message of its iteration in this run ("tagged" and "video times
\* set" stand for an iteration that ends without a message of its own)
Continue(outcome) ==
    /\ pos' = pos + 1
    /\ log' = [log EXCEPT ![cur] = outcome]
    /\ UNCHANGED <<root, recursive, mod, run, snap, pc, exc,
                   all_filepaths, filepaths, filtered_fps>>

\* an exception leaves the loop and main
Raise(exception) ==
    /\ pc' = "aborted"
    /\ exc' = exception
    /\ UNCHANGED <<root, recursive, mod, run, snap, pos,
                   all_filepaths, filepaths, filtered_fps>>

\* lines 96-98
VideoSkip ==
    /\ InLoop /\ IsVideoName
    /\ ~filename.is_whatsapp_vid
    /\ Continue("not a valid WhatsApp video, skipping")
    /\ UNCHANGED <<files, exif_bytes>>

\* line 99: strptime raises ValueError, nothing catches it
VideoRaise ==
    /\ InLoop /\ IsVideoName
    /\ filename.is_whatsapp_vid
    /\ ~filename.get_datetime.ok
    /\ Raise("ValueError")
    /\ UNCHANGED <<files, exif_bytes, log>>

\* lines 99-101
VideoTouch ==
    /\ InLoop /\ IsVideoName
    /\ filename.is_whatsapp_vid
    /\ filename.get_datetime.ok
    /\ files' = [files EXCEPT
                   ![cur] = utime(@, timestamp(filename.get_datetime.dt))]
    /\ Continue("video times set")
    /\ UNCHANGED exif_bytes

\* lines 104-106
ImageSkipName ==
    /\ InLoop /\ IsImageName
    /\ ~filename.is_whatsapp_img
    /\ Continue("not a valid WhatsApp image, skipping")
    /\ UNCHANGED <<files, exif_bytes>>

\* lines 109, 117-119
ImageInvalidData ==
    /\ InLoop /\ IsImageName
    /\ filename.is_whatsapp_img
    /\ piexif_load(files[cur]) = "InvalidImageDataError"
    /\ Continue("Invalid image data, skipping")
    /\ UNCHANGED <<files, exif_bytes>>

\* ImageAlreadyTagged with the mod step of lines 124-127 placed before the
\* check of line 110
ImageAlreadyTagged_mod_first ==
    /\ InLoop /\ IsImageName
    /\ filename.is_whatsapp_img
    /\ piexif_load(files[cur]) = "ok"
    /\ has_date(files[cur].exif)
    /\ files' = [files EXCEPT ![cur] =
                    IF mod /\ filename.get_datetime.ok
                    THEN utime(@, timestamp(filename.get_datetime.dt)) ELSE @]
    /\ Continue("Exif date already exists, skipping")
    /\ UNCHANGED exif_bytes

\* lines 109-112
ImageAlreadyTagged ==
    /\ InLoop /\ IsImageName
    /\ filename.is_whatsapp_img
    /\ piexif_load(files[cur]) = "ok"
    /\ has_date(files[cur].exif)
    /\ Continue("Exif date already exists, skipping")
    /\ UNCHANGED <<files, exif_bytes>>

\* lines 124-127
ModStep(f) ==
    IF mod THEN utime(f, timestamp(filename.get_datetime.dt)) ELSE f

\* lines 109-116 and 123-127: the try block completes
ImageTag ==
    /\ InLoop /\ IsImageName
    /\ filename.is_whatsapp_img
    /\ piexif_load(files[cur]) = "ok"
    /\ ~has_date(files[cur].exif)
    /\ filename.get_exif_datestr.ok
    /\ ~dump_raises(files[cur].exif)
    /\ LET bytes == set_date(files[cur].exif, filename.get_exif_datestr.str)
       IN /\ exif_bytes' = <<bytes>>
          /\ files' = [files EXCEPT ![cur] = ModStep(insert(bytes, @))]
    /\ Continue("tagged")

\* the try block of lines 109-116 raises a ValueError that is not an
\* InvalidImageDataError: from load, from strptime or from dump
TryRaisesValueError ==
    \/ piexif_load(files[cur]) = "ValueError"
    \/ /\ piexif_load(files[cur]) = "ok"
       /\ ~has_date(files[cur].exif)
       /\ (~filename.get_exif_datestr.ok \/ dump_raises(files[cur].exif))

\* lines 120-122: make_new_exif raises ValueError inside the handler
ImageHandlerRaise ==
    /\ InLoop /\ IsImageName
    /\ filename.is_whatsapp_img
    /\ TryRaisesValueError
    /\ ~filename.make_new_exif.ok
    /\ Raise("ValueError")
    /\ log' = [log EXCEPT ![cur] = "Invalid exif, overwriting with new exif"]
    /\ UNCHANGED <<files, exif_bytes>>

\* lines 120-123: the result of make_new_exif is dropped and exif_bytes
\* has no value yet
ImageUnbound ==
    /\ InLoop /\ IsImageName
    /\ filename.is_whatsapp_img
    /\ TryRaisesValueError
    /\ filename.make_new_exif.ok
    /\ exif_bytes = <<>>
    /\ Raise("UnboundLocalError")
    /\ log' = [log EXCEPT ![cur] = "Invalid exif, overwriting with new exif"]
    /\ UNCHANGED <<files, exif_bytes>>

\* lines 120-127: the result of make_new_exif is dropped and exif_bytes
\* still holds what an earlier iteration serialized
ImageStale ==
    /\ InLoop /\ IsImageName
    /\ filename.is_whatsapp_img
    /\ TryRaisesValueError
    /\ filename.make_new_exif.ok
    /\ exif_bytes # <<>>
    /\ files' = [files EXCEPT ![cur] = ModStep(insert(exif_bytes[1], @))]
    /\ Continue("Invalid exif, overwriting with new exif")
    /\ UNCHANGED exif_bytes

\* lines 129-138
Report ==
    /\ pc = "loop"
    /\ pos > Len(filepaths)
    /\ pc' = "done"
    /\ UNCHANGED <<root, recursive, mod, files, run, snap, exc, all_filepaths,
                   filepaths, filtered_fps, pos, exif_bytes, log>>

\* lines 140-156: the tool is started again on the same directory
Rerun ==
    /\ pc \in {"done", "aborted", "fatal"}
    /\ run < MaxRuns
    /\ run' = run + 1
    /\ snap' = files
    /\ pc' = "validate"
    /\ exc' = "none"
    /\ all_filepaths' = <<>>
    /\ filepaths' = <<>>
    /\ filtered_fps' = <<>>
    /\ pos' = 0
    /\ exif_bytes' = <<>>
    /\ log' = NoLog
    /\ UNCHANGED <<root, recursive, mod, files>>

Next ==
    \/ ValidateFail
    \/ ListAndFilter
    \/ VideoSkip
    \/ VideoRaise
    \/ VideoTouch
    \/ ImageSkipName
    \/ ImageInvalidData
    \/ ImageAlreadyTagged
    \/ ImageTag
    \/ ImageHandlerRaise
    \/ ImageUnbound
    \/ ImageStale
    \/ Report
    \/ Rerun

Spec == Init /\ [][Next]_vars

(***************************************************************************)
(* Vocabulary of the properties.  The expected values are read off the     *)
(* name by position, not through the parser.                               *)
(***************************************************************************)
Range(l) == {l[i] : i \in 1..Len(l)}

IndexIn(l, x) == CHOOSE i \in 1..Len(l) : l[i] = x

Listed == pc \in {"loop", "done", "aborted"}

Included == Range(filepaths)

Excluded == Range(filtered_fps)

Enumerated == Range(all_filepaths)

RunEnded == pc \in {"done", "aborted"}

\* the iteration on file k has completed in the current run
Processed(k) ==
    Listed /\ \E j \in 1..Len(filepaths) : filepaths[j] = k /\ j < pos

OfFile(k) == OnName[files[k].id]

IncludedImage(k) ==
    k \in Included /\ OfFile(k).image_ext /\ ~OfFile(k).video_ext

IncludedVideo(k) == k \in Included /\ OfFile(k).video_ext

ExpectedDateStr(name) ==
    SubSeq(name, 16, 19) \o <<":">> \o SubSeq(name, 21, 22) \o <<":">>
    \o SubSeq(name, 24, 25) \o <<" ">> \o SubSeq(name, 27, 28) \o <<":">>
    \o SubSeq(name, 30, 31) \o <<":">> \o SubSeq(name, 33, 34)

ExpectedEpoch(name) ==
    timestamp(<<int(SubSeq(name, 16, 19)), int(SubSeq(name, 21, 22)),
                int(SubSeq(name, 24, 25)), int(SubSeq(name, 27, 28)),
                int(SubSeq(name, 30, 31)), int(SubSeq(name, 33, 34))>>)

DateOf(f) ==
    IF DateTimeOriginal \in DOMAIN f.exif.tags
    THEN f.exif.tags[DateTimeOriginal] ELSE <<>>

\* the file's metadata container is one that load or dump rejects with
\* ValueError, and the file is not skipped as already tagged
Malformed(f) ==
    /\ f.data = "jpeg"
    /\ \/ f.exif.form = "badload"
       \/ f.exif.form = "baddump" /\ DateOf(f) = <<>>

\* the file is a readable image with a well-formed container and no date
WellFormedUntagged(f) ==
    f.data = "jpeg" /\ f.exif.form = "valid" /\ DateOf(f) = <<>>

SkipOutcomes ==
    {"not a valid WhatsApp video, skipping",
     "not a valid WhatsApp image, skipping",
     "Exif date already exists, skipping",
     "Invalid image data, skipping"}

IsNoise(name) ==
    \/ name = <<".", "D", "S", "_", "S", "t", "o", "r", "e">>
    \/ name = <<"_", "c", "h", "a", "t", ".", "t", "x", "t">>
    \/ (Len(name) >= 2 /\ name[1] = "." /\ name[2] = "_")

(***************************************************************************)
(* C1.  No per-file error aborts the batch: once the root is validated,    *)
(* main never ends on an exception, whatever the directory holds.          *)
(***************************************************************************)
C1_BatchNeverAborts == pc # "aborted"

(***************************************************************************)
(* C2.  A validly named image whose container is malformed ends its        *)
(* iteration holding a fresh container with the date of its own name as    *)
(* only tag.                                                               *)
(***************************************************************************)
C2_MalformedGetsFreshContainer ==
    \A k \in 1..Len(files) :
        ( /\ Processed(k)
          /\ IncludedImage(k)
          /\ OfFile(k).is_whatsapp_img
          /\ OfFile(k).get_datetime.ok
          /\ Malformed(snap[k]) )
        => files[k].exif =
               [form |-> "valid",
                tags |-> [t \in {DateTimeOriginal} |-> ExpectedDateStr(Name(k))]]

(***************************************************************************)
(* C3.  Idempotence: a later run over the same directory leaves the data   *)
(* and the metadata of every image file as the previous run left them,     *)
(* with or without the mod option, and writes into no image.               *)
(***************************************************************************)
C3_SecondRunKeepsImageBytes ==
    run >= 2 =>
        \A k \in 1..Len(files) :
            OfFile(k).image_ext =>
                /\ files[k].data = snap[k].data
                /\ files[k].exif = snap[k].exif
                /\ log[k] # "tagged"
                /\ ~(Processed(k)
                      /\ log[k] = "Invalid exif, overwriting with new exif")

\* the second run, with mod, has skipped an image the first run tagged
C3_Witness ==
    /\ run = 2 /\ pc = "done" /\ mod
    /\ \E k \in 1..Len(files) :
          /\ log[k] = "Exif date already exists, skipping"
          /\ DateOf(NewFile(files[k].id)) = <<>>
          /\ DateOf(files[k]) = ExpectedDateStr(Name(k))

(***************************************************************************)
(* C4.  What the run writes as capture date into a readable, untagged,     *)
(* validly named image is the date of that file's own name.                *)
(***************************************************************************)
C4_WrittenDateIsOwn ==
    \A k \in 1..Len(files) :
        ( /\ IncludedImage(k)
          /\ OfFile(k).is_whatsapp_img
          /\ snap[k].data = "jpeg"
          /\ snap[k].exif.form # "badload"
          /\ DateOf(snap[k]) = <<>>
          /\ files[k].exif # snap[k].exif )
        => DateOf(files[k]) = ExpectedDateStr(Name(k))

(***************************************************************************)
(* C5.  A file the run skips (its name does not match the pattern of its   *)
(* kind, it is already tagged, or its image data is unreadable) is in      *)
(* every later state of the run as it was when the run started: data,      *)
(* metadata, access and modification time; and its iteration ends with a   *)
(* skip outcome.                                                           *)
(***************************************************************************)
SkipCase(k) ==
    \/ IncludedVideo(k) /\ ~OfFile(k).is_whatsapp_vid
    \/ /\ IncludedImage(k)
       /\ \/ ~OfFile(k).is_whatsapp_img
          \/ snap[k].data = "garbage"
          \/ snap[k].exif.form # "badload" /\ DateOf(snap[k]) # <<>>

C6_VideoTimesFromName ==
    RunEnded =>
        \A k \in 1..Len(files) :
            (IncludedVideo(k) /\ OfFile(k).is_whatsapp_vid)
            => /\ files[k].atime = ExpectedEpoch(Name(k))
               /\ files[k].mtime = ExpectedEpoch(Name(k))
               /\ files[k].exif = snap[k].exif

(***************************************************************************)
(* C7.  At the end of the run every valid untagged WhatsApp image carries  *)
(* the date of its name; its modification time is that timestamp with the  *)
(* mod option and is unchanged without it.                                 *)
(***************************************************************************)
C7_ModOption ==
    RunEnded =>
        \A k \in 1..Len(files) :
            ( /\ IncludedImage(k)
              /\ OfFile(k).is_whatsapp_img
              /\ OfFile(k).get_datetime.ok
              /\ WellFormedUntagged(snap[k]) )
            => /\ DateOf(files[k]) = ExpectedDateStr(Name(k))
               /\ mod => files[k].mtime = ExpectedEpoch(Name(k))
               /\ ~mod => files[k].mtime = snap[k].mtime

(***************************************************************************)
(* C8.  Partition: the included and the excluded list hold together every  *)
(* enumerated file and share none; an included name ends with one of the   *)
(* four extensions in that exact case, an excluded name has none of them   *)
(* as extension; the included list keeps the enumeration order.            *)
(***************************************************************************)
C8_Partition ==
    Listed =>
        /\ Included \cup Excluded = Enumerated
        /\ Included \cap Excluded = {}
        /\ \A k \in Included :
               \E e \in {MP4, JPG, GP3, JPEG} : endswith(Name(k), e)
        /\ \A k \in Excluded : splitext(Name(k)) \notin {MP4, JPG, GP3, JPEG}
        /\ \A i, j \in 1..Len(filepaths) :
               i < j => IndexIn(all_filepaths, filepaths[i])
                            < IndexIn(all_filepaths, filepaths[j])

\* three files are enumerated: two are included, out of catalogue order,
\* and one, with an upper-case extension, is excluded
C8_Witness ==
    /\ Listed
    /\ Len(filepaths) = 2 /\ filepaths[1] > filepaths[2]
    /\ \E k \in Excluded : Name(k) = <<"I", "M", "G", ".", "J", "P", "G">>

(***************************************************************************)
(* C9.  Exclusion: in both modes no file named .DS_Store or _chat.txt or   *)
(* beginning with ._ is enumerated, included or excluded, and none is      *)
(* ever touched or logged; every other regular file in reach of the mode   *)
(* is enumerated.                                                          *)
(***************************************************************************)
C9_NoiseNeverListed ==
    /\ \A k \in Enumerated \cup Included \cup Excluded : ~IsNoise(Name(k))
    /\ \A k \in 1..Len(files) :
           IsNoise(Name(k)) => files[k] = NewFile(files[k].id) /\ log[k] = "none"
    /\ Listed =>
           \A k \in 1..Len(files) :
               ( /\ ~IsNoise(Name(k))
                 /\ Catalogue[files[k].id].isfile
                 /\ (recursive \/ Catalogue[files[k].id].dir = 0) )
               => k \in Enumerated

\* a recursive run over a .DS_Store, an AppleDouble file in the
\* subdirectory and an image has tagged the image
C9_Witness ==
    /\ pc = "done" /\ recursive
    /\ \E k, j, i \in 1..Len(files) :
          /\ Name(k) = <<".", "D", "S", "_", "S", "t", "o", "r", "e">>
          /\ startswith(Name(j), <<".", "_">>)
          /\ log[i] = "tagged"

(***************************************************************************)
(* C10.  No value computed for one file is written into another: the       *)
(* capture date a file carries is the one it had before the tool ran or    *)
(* the date of its own name.                                               *)
(***************************************************************************)
C10_NoCrossFileValue ==
    \A k \in 1..Len(files) :
        \/ DateOf(files[k]) = DateOf(NewFile(files[k].id))
        \/ DateOf(files[k]) = ExpectedDateStr(Name(k))

====
